---- MODULE Spec2Model ----
(***************************************************************************)
(* FAQ bot: knowledge-base loader, fuzzy intent matcher, entity fallback   *)
(* analyser with alternating responses, and the console and Discord        *)
(* conversation drivers (faq_bot_plus.py, discord_faq_bot.py).             *)
(*                                                                         *)
(* Text is modelled as a sequence of Unicode code points, as a Python str  *)
(* is: "Hi!" is <<72, 105, 33>>.  The results of the third-party libraries *)
(* (regex fuzzy search, the spaCy pipeline and matcher) are chosen         *)
(* nondeterministically at the call site from the outcomes those calls can *)
(* have.                                                                   *)
(***************************************************************************)
EXTENDS Integers, Sequences, FiniteSets, TLC

VARIABLES
    qfile, afile, rfile,        \* contents of questions.txt, answers.txt, regex.txt
    boot,                       \* start-up position: "faq", "patterns", "ready"
    questions, answers, regex_list,   \* the loaded knowledge base
    driver,                     \* "console" (main) or "discord" (MyClient)
    running,                    \* the session is alive (loop not left, client not closed)
    crashed,                    \* the exceptions that have escaped so far, by name
    last_response,              \* ResponseManager.last_response: label -> 0 or 1
    hits,                       \* history: number of get_response reads per label
    handlers,                   \* the handlers in progress: position and locals of each
    received,                   \* number of messages received so far
    delivered,                  \* history: number of responses delivered to the user
    farewellSent,               \* history: the farewell has been delivered
    probe                       \* input and result of a function applied on its own

vars == <<qfile, afile, rfile, boot, questions, answers, regex_list, driver,
          running, crashed, last_response, hits, handlers, received, delivered,
          farewellSent, probe>>

----------------------------------------------------------------------------
(* Bounds of the model. *)

MaxFileLen == 3        \* characters in a source file (loader specification)
MaxPatterns == 2       \* patterns in a list handed to understand on its own
MaxErr == 1            \* largest substitution / insertion / deletion count of a match
MaxMsgs == 3           \* messages received in one session
MaxSpans == 1          \* spans per list (matcher matches, entities) in a parsed doc
MaxPending == 2        \* handlers in progress at the same time (Discord)

----------------------------------------------------------------------------
(* Text helpers: the str methods the program calls. *)

\* the characters str.split() and str.strip() take as whitespace (str.isspace):
\* \t \n \v \f \r, U+001C to U+001F, space, U+0085, U+00A0, U+1680,
\* U+2000 to U+200A, U+2028, U+2029, U+202F, U+205F, U+3000
Whitespace ==
    (9..13) \cup (28..32) \cup {133, 160, 5760} \cup (8192..8202)
        \cup {8232, 8233, 8239, 8287, 12288}

\* the 32 characters of string.punctuation: U+0021 to U+002F, U+003A to U+0040,
\* U+005B to U+0060 (the grave accent), U+007B to U+007E
Punctuation == (33..47) \cup (58..64) \cup (91..96) \cup (123..126)

\* c lies in one of the ranges <<first, last>> of R
InRanges(c, R) == \E r \in R : r[1] <= c /\ c <= r[2]

\* the cased characters above ASCII that str.lower() maps to one other character
\* (Unicode 14.0.0, the database of the interpreter): <<first, last, step, offset>>
\* stands for first, first + step, ..., last, each mapped to itself + offset
LowerRanges ==
    {
      <<192, 214, 1, 32>>, <<216, 222, 1, 32>>, <<256, 302, 2, 1>>,
      <<306, 310, 2, 1>>, <<313, 327, 2, 1>>, <<330, 374, 2, 1>>,
      <<376, 376, 1, -121>>, <<377, 381, 2, 1>>, <<385, 385, 1, 210>>,
      <<386, 388, 2, 1>>, <<390, 390, 1, 206>>, <<391, 391, 1, 1>>,
      <<393, 394, 1, 205>>, <<395, 395, 1, 1>>, <<398, 398, 1, 79>>,
      <<399, 399, 1, 202>>, <<400, 400, 1, 203>>, <<401, 401, 1, 1>>,
      <<403, 403, 1, 205>>, <<404, 404, 1, 207>>, <<406, 406, 1, 211>>,
      <<407, 407, 1, 209>>, <<408, 408, 1, 1>>, <<412, 412, 1, 211>>,
      <<413, 413, 1, 213>>, <<415, 415, 1, 214>>, <<416, 420, 2, 1>>,
      <<422, 422, 1, 218>>, <<423, 423, 1, 1>>, <<425, 425, 1, 218>>,
      <<428, 428, 1, 1>>, <<430, 430, 1, 218>>, <<431, 431, 1, 1>>,
      <<433, 434, 1, 217>>, <<435, 437, 2, 1>>, <<439, 439, 1, 219>>,
      <<440, 440, 1, 1>>, <<444, 444, 1, 1>>, <<452, 452, 1, 2>>,
      <<453, 453, 1, 1>>, <<455, 455, 1, 2>>, <<456, 456, 1, 1>>,
      <<458, 458, 1, 2>>, <<459, 475, 2, 1>>, <<478, 494, 2, 1>>,
      <<497, 497, 1, 2>>, <<498, 500, 2, 1>>, <<502, 502, 1, -97>>,
      <<503, 503, 1, -56>>, <<504, 542, 2, 1>>, <<544, 544, 1, -130>>,
      <<546, 562, 2, 1>>, <<570, 570, 1, 10795>>, <<571, 571, 1, 1>>,
      <<573, 573, 1, -163>>, <<574, 574, 1, 10792>>, <<577, 577, 1, 1>>,
      <<579, 579, 1, -195>>, <<580, 580, 1, 69>>, <<581, 581, 1, 71>>,
      <<582, 590, 2, 1>>, <<880, 882, 2, 1>>, <<886, 886, 1, 1>>,
      <<895, 895, 1, 116>>, <<902, 902, 1, 38>>, <<904, 906, 1, 37>>,
      <<908, 908, 1, 64>>, <<910, 911, 1, 63>>, <<913, 929, 1, 32>>,
      <<932, 939, 1, 32>>, <<975, 975, 1, 8>>, <<984, 1006, 2, 1>>,
      <<1012, 1012, 1, -60>>, <<1015, 1015, 1, 1>>, <<1017, 1017, 1, -7>>,
      <<1018, 1018, 1, 1>>, <<1021, 1023, 1, -130>>, <<1024, 1039, 1, 80>>,
      <<1040, 1071, 1, 32>>, <<1120, 1152, 2, 1>>, <<1162, 1214, 2, 1>>,
      <<1216, 1216, 1, 15>>, <<1217, 1229, 2, 1>>, <<1232, 1326, 2, 1>>,
      <<1329, 1366, 1, 48>>, <<4256, 4293, 1, 7264>>, <<4295, 4295, 1, 7264>>,
      <<4301, 4301, 1, 7264>>, <<5024, 5103, 1, 38864>>, <<5104, 5109, 1, 8>>,
      <<7312, 7354, 1, -3008>>, <<7357, 7359, 1, -3008>>, <<7680, 7828, 2, 1>>,
      <<7838, 7838, 1, -7615>>, <<7840, 7934, 2, 1>>, <<7944, 7951, 1, -8>>,
      <<7960, 7965, 1, -8>>, <<7976, 7983, 1, -8>>, <<7992, 7999, 1, -8>>,
      <<8008, 8013, 1, -8>>, <<8025, 8031, 2, -8>>, <<8040, 8047, 1, -8>>,
      <<8072, 8079, 1, -8>>, <<8088, 8095, 1, -8>>, <<8104, 8111, 1, -8>>,
      <<8120, 8121, 1, -8>>, <<8122, 8123, 1, -74>>, <<8124, 8124, 1, -9>>,
      <<8136, 8139, 1, -86>>, <<8140, 8140, 1, -9>>, <<8152, 8153, 1, -8>>,
      <<8154, 8155, 1, -100>>, <<8168, 8169, 1, -8>>, <<8170, 8171, 1, -112>>,
      <<8172, 8172, 1, -7>>, <<8184, 8185, 1, -128>>, <<8186, 8187, 1, -126>>,
      <<8188, 8188, 1, -9>>, <<8486, 8486, 1, -7517>>, <<8490, 8490, 1, -8383>>,
      <<8491, 8491, 1, -8262>>, <<8498, 8498, 1, 28>>, <<8544, 8559, 1, 16>>,
      <<8579, 8579, 1, 1>>, <<9398, 9423, 1, 26>>, <<11264, 11311, 1, 48>>,
      <<11360, 11360, 1, 1>>, <<11362, 11362, 1, -10743>>,
      <<11363, 11363, 1, -3814>>, <<11364, 11364, 1, -10727>>,
      <<11367, 11371, 2, 1>>, <<11373, 11373, 1, -10780>>,
      <<11374, 11374, 1, -10749>>, <<11375, 11375, 1, -10783>>,
      <<11376, 11376, 1, -10782>>, <<11378, 11378, 1, 1>>,
      <<11381, 11381, 1, 1>>, <<11390, 11391, 1, -10815>>,
      <<11392, 11490, 2, 1>>, <<11499, 11501, 2, 1>>, <<11506, 11506, 1, 1>>,
      <<42560, 42604, 2, 1>>, <<42624, 42650, 2, 1>>, <<42786, 42798, 2, 1>>,
      <<42802, 42862, 2, 1>>, <<42873, 42875, 2, 1>>,
      <<42877, 42877, 1, -35332>>, <<42878, 42886, 2, 1>>,
      <<42891, 42891, 1, 1>>, <<42893, 42893, 1, -42280>>,
      <<42896, 42898, 2, 1>>, <<42902, 42920, 2, 1>>,
      <<42922, 42922, 1, -42308>>, <<42923, 42923, 1, -42319>>,
      <<42924, 42924, 1, -42315>>, <<42925, 42925, 1, -42305>>,
      <<42926, 42926, 1, -42308>>, <<42928, 42928, 1, -42258>>,
      <<42929, 42929, 1, -42282>>, <<42930, 42930, 1, -42261>>,
      <<42931, 42931, 1, 928>>, <<42932, 42946, 2, 1>>,
      <<42948, 42948, 1, -48>>, <<42949, 42949, 1, -42307>>,
      <<42950, 42950, 1, -35384>>, <<42951, 42953, 2, 1>>,
      <<42960, 42960, 1, 1>>, <<42966, 42968, 2, 1>>, <<42997, 42997, 1, 1>>,
      <<65313, 65338, 1, 32>>, <<66560, 66599, 1, 40>>, <<66736, 66771, 1, 40>>,
      <<66928, 66964, 2, 39>>, <<66929, 66937, 2, 39>>, <<66941, 66953, 2, 39>>,
      <<66957, 66961, 2, 39>>, <<66965, 66965, 1, 39>>, <<68736, 68786, 1, 64>>,
      <<71840, 71871, 1, 32>>, <<93760, 93791, 1, 32>>,
      <<125184, 125217, 1, 34>>
    }

\* the characters with the Cased property that are not Case_Ignorable
\* (<<first, last>>), which decide the lower-case form of a capital sigma
CasedRanges ==
    {
      <<65, 90>>, <<97, 122>>, <<170, 170>>, <<181, 181>>, <<186, 186>>,
      <<192, 214>>, <<216, 246>>, <<248, 442>>, <<444, 447>>, <<452, 659>>,
      <<661, 687>>, <<880, 883>>, <<886, 887>>, <<891, 893>>, <<895, 895>>,
      <<902, 902>>, <<904, 906>>, <<908, 908>>, <<910, 929>>, <<931, 1013>>,
      <<1015, 1153>>, <<1162, 1327>>, <<1329, 1366>>, <<1376, 1416>>,
      <<4256, 4293>>, <<4295, 4295>>, <<4301, 4301>>, <<4304, 4346>>,
      <<4349, 4351>>, <<5024, 5109>>, <<5112, 5117>>, <<7296, 7304>>,
      <<7312, 7354>>, <<7357, 7359>>, <<7424, 7467>>, <<7531, 7543>>,
      <<7545, 7578>>, <<7680, 7957>>, <<7960, 7965>>, <<7968, 8005>>,
      <<8008, 8013>>, <<8016, 8023>>, <<8025, 8025>>, <<8027, 8027>>,
      <<8029, 8029>>, <<8031, 8061>>, <<8064, 8116>>, <<8118, 8124>>,
      <<8126, 8126>>, <<8130, 8132>>, <<8134, 8140>>, <<8144, 8147>>,
      <<8150, 8155>>, <<8160, 8172>>, <<8178, 8180>>, <<8182, 8188>>,
      <<8450, 8450>>, <<8455, 8455>>, <<8458, 8467>>, <<8469, 8469>>,
      <<8473, 8477>>, <<8484, 8484>>, <<8486, 8486>>, <<8488, 8488>>,
      <<8490, 8493>>, <<8495, 8500>>, <<8505, 8505>>, <<8508, 8511>>,
      <<8517, 8521>>, <<8526, 8526>>, <<8544, 8575>>, <<8579, 8580>>,
      <<9398, 9449>>, <<11264, 11387>>, <<11390, 11492>>, <<11499, 11502>>,
      <<11506, 11507>>, <<11520, 11557>>, <<11559, 11559>>, <<11565, 11565>>,
      <<42560, 42605>>, <<42624, 42651>>, <<42786, 42863>>, <<42865, 42887>>,
      <<42891, 42894>>, <<42896, 42954>>, <<42960, 42961>>, <<42963, 42963>>,
      <<42965, 42969>>, <<42997, 42998>>, <<43002, 43002>>, <<43824, 43866>>,
      <<43872, 43880>>, <<43888, 43967>>, <<64256, 64262>>, <<64275, 64279>>,
      <<65313, 65338>>, <<65345, 65370>>, <<66560, 66639>>, <<66736, 66771>>,
      <<66776, 66811>>, <<66928, 66938>>, <<66940, 66954>>, <<66956, 66962>>,
      <<66964, 66965>>, <<66967, 66977>>, <<66979, 66993>>, <<66995, 67001>>,
      <<67003, 67004>>, <<68736, 68786>>, <<68800, 68850>>, <<71840, 71903>>,
      <<93760, 93823>>, <<119808, 119892>>, <<119894, 119964>>,
      <<119966, 119967>>, <<119970, 119970>>, <<119973, 119974>>,
      <<119977, 119980>>, <<119982, 119993>>, <<119995, 119995>>,
      <<119997, 120003>>, <<120005, 120069>>, <<120071, 120074>>,
      <<120077, 120084>>, <<120086, 120092>>, <<120094, 120121>>,
      <<120123, 120126>>, <<120128, 120132>>, <<120134, 120134>>,
      <<120138, 120144>>, <<120146, 120485>>, <<120488, 120512>>,
      <<120514, 120538>>, <<120540, 120570>>, <<120572, 120596>>,
      <<120598, 120628>>, <<120630, 120654>>, <<120656, 120686>>,
      <<120688, 120712>>, <<120714, 120744>>, <<120746, 120770>>,
      <<120772, 120779>>, <<122624, 122633>>, <<122635, 122654>>,
      <<125184, 125251>>, <<127280, 127305>>, <<127312, 127337>>,
      <<127344, 127369>>
    }

\* the characters with the Case_Ignorable property (<<first, last>>)
CaseIgnorableRanges ==
    {
      <<39, 39>>, <<46, 46>>, <<58, 58>>, <<94, 94>>, <<96, 96>>, <<168, 168>>,
      <<173, 173>>, <<175, 175>>, <<180, 180>>, <<183, 184>>, <<688, 879>>,
      <<884, 885>>, <<890, 890>>, <<900, 901>>, <<903, 903>>, <<1155, 1161>>,
      <<1369, 1369>>, <<1375, 1375>>, <<1425, 1469>>, <<1471, 1471>>,
      <<1473, 1474>>, <<1476, 1477>>, <<1479, 1479>>, <<1524, 1524>>,
      <<1536, 1541>>, <<1552, 1562>>, <<1564, 1564>>, <<1600, 1600>>,
      <<1611, 1631>>, <<1648, 1648>>, <<1750, 1757>>, <<1759, 1768>>,
      <<1770, 1773>>, <<1807, 1807>>, <<1809, 1809>>, <<1840, 1866>>,
      <<1958, 1968>>, <<2027, 2037>>, <<2042, 2042>>, <<2045, 2045>>,
      <<2070, 2093>>, <<2137, 2139>>, <<2184, 2184>>, <<2192, 2193>>,
      <<2200, 2207>>, <<2249, 2306>>, <<2362, 2362>>, <<2364, 2364>>,
      <<2369, 2376>>, <<2381, 2381>>, <<2385, 2391>>, <<2402, 2403>>,
      <<2417, 2417>>, <<2433, 2433>>, <<2492, 2492>>, <<2497, 2500>>,
      <<2509, 2509>>, <<2530, 2531>>, <<2558, 2558>>, <<2561, 2562>>,
      <<2620, 2620>>, <<2625, 2626>>, <<2631, 2632>>, <<2635, 2637>>,
      <<2641, 2641>>, <<2672, 2673>>, <<2677, 2677>>, <<2689, 2690>>,
      <<2748, 2748>>, <<2753, 2757>>, <<2759, 2760>>, <<2765, 2765>>,
      <<2786, 2787>>, <<2810, 2815>>, <<2817, 2817>>, <<2876, 2876>>,
      <<2879, 2879>>, <<2881, 2884>>, <<2893, 2893>>, <<2901, 2902>>,
      <<2914, 2915>>, <<2946, 2946>>, <<3008, 3008>>, <<3021, 3021>>,
      <<3072, 3072>>, <<3076, 3076>>, <<3132, 3132>>, <<3134, 3136>>,
      <<3142, 3144>>, <<3146, 3149>>, <<3157, 3158>>, <<3170, 3171>>,
      <<3201, 3201>>, <<3260, 3260>>, <<3263, 3263>>, <<3270, 3270>>,
      <<3276, 3277>>, <<3298, 3299>>, <<3328, 3329>>, <<3387, 3388>>,
      <<3393, 3396>>, <<3405, 3405>>, <<3426, 3427>>, <<3457, 3457>>,
      <<3530, 3530>>, <<3538, 3540>>, <<3542, 3542>>, <<3633, 3633>>,
      <<3636, 3642>>, <<3654, 3662>>, <<3761, 3761>>, <<3764, 3772>>,
      <<3782, 3782>>, <<3784, 3789>>, <<3864, 3865>>, <<3893, 3893>>,
      <<3895, 3895>>, <<3897, 3897>>, <<3953, 3966>>, <<3968, 3972>>,
      <<3974, 3975>>, <<3981, 3991>>, <<3993, 4028>>, <<4038, 4038>>,
      <<4141, 4144>>, <<4146, 4151>>, <<4153, 4154>>, <<4157, 4158>>,
      <<4184, 4185>>, <<4190, 4192>>, <<4209, 4212>>, <<4226, 4226>>,
      <<4229, 4230>>, <<4237, 4237>>, <<4253, 4253>>, <<4348, 4348>>,
      <<4957, 4959>>, <<5906, 5908>>, <<5938, 5939>>, <<5970, 5971>>,
      <<6002, 6003>>, <<6068, 6069>>, <<6071, 6077>>, <<6086, 6086>>,
      <<6089, 6099>>, <<6103, 6103>>, <<6109, 6109>>, <<6155, 6159>>,
      <<6211, 6211>>, <<6277, 6278>>, <<6313, 6313>>, <<6432, 6434>>,
      <<6439, 6440>>, <<6450, 6450>>, <<6457, 6459>>, <<6679, 6680>>,
      <<6683, 6683>>, <<6742, 6742>>, <<6744, 6750>>, <<6752, 6752>>,
      <<6754, 6754>>, <<6757, 6764>>, <<6771, 6780>>, <<6783, 6783>>,
      <<6823, 6823>>, <<6832, 6862>>, <<6912, 6915>>, <<6964, 6964>>,
      <<6966, 6970>>, <<6972, 6972>>, <<6978, 6978>>, <<7019, 7027>>,
      <<7040, 7041>>, <<7074, 7077>>, <<7080, 7081>>, <<7083, 7085>>,
      <<7142, 7142>>, <<7144, 7145>>, <<7149, 7149>>, <<7151, 7153>>,
      <<7212, 7219>>, <<7222, 7223>>, <<7288, 7293>>, <<7376, 7378>>,
      <<7380, 7392>>, <<7394, 7400>>, <<7405, 7405>>, <<7412, 7412>>,
      <<7416, 7417>>, <<7468, 7530>>, <<7544, 7544>>, <<7579, 7679>>,
      <<8125, 8125>>, <<8127, 8129>>, <<8141, 8143>>, <<8157, 8159>>,
      <<8173, 8175>>, <<8189, 8190>>, <<8203, 8207>>, <<8216, 8217>>,
      <<8228, 8228>>, <<8231, 8231>>, <<8234, 8238>>, <<8288, 8292>>,
      <<8294, 8303>>, <<8305, 8305>>, <<8319, 8319>>, <<8336, 8348>>,
      <<8400, 8432>>, <<11388, 11389>>, <<11503, 11505>>, <<11631, 11631>>,
      <<11647, 11647>>, <<11744, 11775>>, <<11823, 11823>>, <<12293, 12293>>,
      <<12330, 12333>>, <<12337, 12341>>, <<12347, 12347>>, <<12441, 12446>>,
      <<12540, 12542>>, <<40981, 40981>>, <<42232, 42237>>, <<42508, 42508>>,
      <<42607, 42610>>, <<42612, 42621>>, <<42623, 42623>>, <<42652, 42655>>,
      <<42736, 42737>>, <<42752, 42785>>, <<42864, 42864>>, <<42888, 42890>>,
      <<42994, 42996>>, <<43000, 43001>>, <<43010, 43010>>, <<43014, 43014>>,
      <<43019, 43019>>, <<43045, 43046>>, <<43052, 43052>>, <<43204, 43205>>,
      <<43232, 43249>>, <<43263, 43263>>, <<43302, 43309>>, <<43335, 43345>>,
      <<43392, 43394>>, <<43443, 43443>>, <<43446, 43449>>, <<43452, 43453>>,
      <<43471, 43471>>, <<43493, 43494>>, <<43561, 43566>>, <<43569, 43570>>,
      <<43573, 43574>>, <<43587, 43587>>, <<43596, 43596>>, <<43632, 43632>>,
      <<43644, 43644>>, <<43696, 43696>>, <<43698, 43700>>, <<43703, 43704>>,
      <<43710, 43711>>, <<43713, 43713>>, <<43741, 43741>>, <<43756, 43757>>,
      <<43763, 43764>>, <<43766, 43766>>, <<43867, 43871>>, <<43881, 43883>>,
      <<44005, 44005>>, <<44008, 44008>>, <<44013, 44013>>, <<64286, 64286>>,
      <<64434, 64450>>, <<65024, 65039>>, <<65043, 65043>>, <<65056, 65071>>,
      <<65106, 65106>>, <<65109, 65109>>, <<65279, 65279>>, <<65287, 65287>>,
      <<65294, 65294>>, <<65306, 65306>>, <<65342, 65342>>, <<65344, 65344>>,
      <<65392, 65392>>, <<65438, 65439>>, <<65507, 65507>>, <<65529, 65531>>,
      <<66045, 66045>>, <<66272, 66272>>, <<66422, 66426>>, <<67456, 67461>>,
      <<67463, 67504>>, <<67506, 67514>>, <<68097, 68099>>, <<68101, 68102>>,
      <<68108, 68111>>, <<68152, 68154>>, <<68159, 68159>>, <<68325, 68326>>,
      <<68900, 68903>>, <<69291, 69292>>, <<69446, 69456>>, <<69506, 69509>>,
      <<69633, 69633>>, <<69688, 69702>>, <<69744, 69744>>, <<69747, 69748>>,
      <<69759, 69761>>, <<69811, 69814>>, <<69817, 69818>>, <<69821, 69821>>,
      <<69826, 69826>>, <<69837, 69837>>, <<69888, 69890>>, <<69927, 69931>>,
      <<69933, 69940>>, <<70003, 70003>>, <<70016, 70017>>, <<70070, 70078>>,
      <<70089, 70092>>, <<70095, 70095>>, <<70191, 70193>>, <<70196, 70196>>,
      <<70198, 70199>>, <<70206, 70206>>, <<70367, 70367>>, <<70371, 70378>>,
      <<70400, 70401>>, <<70459, 70460>>, <<70464, 70464>>, <<70502, 70508>>,
      <<70512, 70516>>, <<70712, 70719>>, <<70722, 70724>>, <<70726, 70726>>,
      <<70750, 70750>>, <<70835, 70840>>, <<70842, 70842>>, <<70847, 70848>>,
      <<70850, 70851>>, <<71090, 71093>>, <<71100, 71101>>, <<71103, 71104>>,
      <<71132, 71133>>, <<71219, 71226>>, <<71229, 71229>>, <<71231, 71232>>,
      <<71339, 71339>>, <<71341, 71341>>, <<71344, 71349>>, <<71351, 71351>>,
      <<71453, 71455>>, <<71458, 71461>>, <<71463, 71467>>, <<71727, 71735>>,
      <<71737, 71738>>, <<71995, 71996>>, <<71998, 71998>>, <<72003, 72003>>,
      <<72148, 72151>>, <<72154, 72155>>, <<72160, 72160>>, <<72193, 72202>>,
      <<72243, 72248>>, <<72251, 72254>>, <<72263, 72263>>, <<72273, 72278>>,
      <<72281, 72283>>, <<72330, 72342>>, <<72344, 72345>>, <<72752, 72758>>,
      <<72760, 72765>>, <<72767, 72767>>, <<72850, 72871>>, <<72874, 72880>>,
      <<72882, 72883>>, <<72885, 72886>>, <<73009, 73014>>, <<73018, 73018>>,
      <<73020, 73021>>, <<73023, 73029>>, <<73031, 73031>>, <<73104, 73105>>,
      <<73109, 73109>>, <<73111, 73111>>, <<73459, 73460>>, <<78896, 78904>>,
      <<92912, 92916>>, <<92976, 92982>>, <<92992, 92995>>, <<94031, 94031>>,
      <<94095, 94111>>, <<94176, 94177>>, <<94179, 94180>>, <<110576, 110579>>,
      <<110581, 110587>>, <<110589, 110590>>, <<113821, 113822>>,
      <<113824, 113827>>, <<118528, 118573>>, <<118576, 118598>>,
      <<119143, 119145>>, <<119155, 119170>>, <<119173, 119179>>,
      <<119210, 119213>>, <<119362, 119364>>, <<121344, 121398>>,
      <<121403, 121452>>, <<121461, 121461>>, <<121476, 121476>>,
      <<121499, 121503>>, <<121505, 121519>>, <<122880, 122886>>,
      <<122888, 122904>>, <<122907, 122913>>, <<122915, 122916>>,
      <<122918, 122922>>, <<123184, 123197>>, <<123566, 123566>>,
      <<123628, 123631>>, <<125136, 125142>>, <<125252, 125259>>,
      <<127995, 127999>>, <<917505, 917505>>, <<917536, 917631>>,
      <<917760, 917999>>
    }

Cased(c) == InRanges(c, CasedRanges)

CaseIgnorable(c) == InRanges(c, CaseIgnorableRanges)

\* the nearest character before position j that is not case-ignorable is cased
RECURSIVE CasedBefore(_, _)
CasedBefore(s, j) ==
    IF j < 1 THEN FALSE
    ELSE IF CaseIgnorable(s[j]) THEN CasedBefore(s, j - 1)
    ELSE Cased(s[j])

\* the nearest character from position j on that is not case-ignorable is cased
RECURSIVE CasedAfter(_, _)
CasedAfter(s, j) ==
    IF j > Len(s) THEN FALSE
    ELSE IF CaseIgnorable(s[j]) THEN CasedAfter(s, j + 1)
    ELSE Cased(s[j])

\* the capital sigma at position i ends a word: it lowers to the final sigma
FinalSigma(s, i) == CasedBefore(s, i - 1) /\ ~CasedAfter(s, i + 1)

\* the range of LowerRanges that holds c
LowerRange(c) ==
    {r \in LowerRanges : r[1] <= c /\ c <= r[2] /\ (c - r[1]) % r[3] = 0}

\* str.lower() on the character at position i of s: the characters it becomes.
\* ASCII: A to Z only.  Above: the capital sigma (931) by its place in the word,
\* the dotted capital I (304) to two characters, the others by LowerRanges
LowerChar(s, i) ==
    LET c == s[i]
    IN  IF c < 128
        THEN IF c \in 65..90 THEN <<c + 32>> ELSE <<c>>
        ELSE IF c = 931
        THEN IF FinalSigma(s, i) THEN <<962>> ELSE <<963>>
        ELSE IF c = 304
        THEN <<105, 775>>
        ELSE IF LowerRange(c) # {}
        THEN <<c + (CHOOSE r \in LowerRange(c) : TRUE)[4]>>
        ELSE <<c>>

\* str.lower()
RECURSIVE LowerFrom(_, _)
LowerFrom(s, i) ==
    IF i > Len(s) THEN <<>> ELSE LowerChar(s, i) \o LowerFrom(s, i + 1)

Lower(s) == LowerFrom(s, 1)

\* str.translate(str.maketrans('', '', string.punctuation))
RemovePunctuation(s) == SelectSeq(s, LAMBDA c : c \notin Punctuation)

\* str.split(): the maximal runs of non-whitespace characters, in order
RECURSIVE SplitFrom(_, _, _)
SplitFrom(s, i, word) ==
    IF i > Len(s)
    THEN IF word = <<>> THEN <<>> ELSE <<word>>
    ELSE IF s[i] \in Whitespace
         THEN IF word = <<>>
              THEN SplitFrom(s, i + 1, <<>>)
              ELSE <<word>> \o SplitFrom(s, i + 1, <<>>)
         ELSE SplitFrom(s, i + 1, Append(word, s[i]))

Split(s) == SplitFrom(s, 1, <<>>)

\* ' '.join(words)
RECURSIVE Join(_)
Join(words) ==
    IF words = <<>> THEN <<>>
    ELSE IF Len(words) = 1 THEN words[1]
    ELSE words[1] \o <<32>> \o Join(Tail(words))

\* str.strip(): leading and trailing whitespace removed
RECURSIVE LStrip(_)
LStrip(s) ==
    IF s # <<>> /\ s[1] \in Whitespace THEN LStrip(Tail(s)) ELSE s

RECURSIVE RStrip(_)
RStrip(s) ==
    IF s # <<>> /\ s[Len(s)] \in Whitespace
    THEN RStrip(SubSeq(s, 1, Len(s) - 1))
    ELSE s

Strip(s) == RStrip(LStrip(s))

\* what a file opened with open(name, 'r') hands over (universal newlines):
\* \r\n and a lone \r are both read as \n
RECURSIVE TranslateNewlines(_, _)
TranslateNewlines(s, i) ==
    IF i > Len(s) THEN <<>>
    ELSE IF s[i] = 13
         THEN <<10>> \o TranslateNewlines(s, IF i < Len(s) /\ s[i + 1] = 10
                                             THEN i + 2 ELSE i + 1)
         ELSE <<s[i]>> \o TranslateNewlines(s, i + 1)

\* the lines of a text, each with its \n (the last one may have none)
RECURSIVE ReadLinesFrom(_, _, _)
ReadLinesFrom(s, i, line) ==
    IF i > Len(s)
    THEN IF line = <<>> THEN <<>> ELSE <<line>>
    ELSE IF s[i] = 10
         THEN <<Append(line, s[i])>> \o ReadLinesFrom(s, i + 1, <<>>)
         ELSE ReadLinesFrom(s, i + 1, Append(line, s[i]))

\* file.readlines() on a file of content s
ReadLines(s) == ReadLinesFrom(TranslateNewlines(s, 1), 1, <<>>)

----------------------------------------------------------------------------
(* faq_bot_plus.py: sanitize_text, the loaders, understand. *)

sanitize_text(text) == Lower(Join(Split(RemovePunctuation(text))))

\* [line.strip() for line in f.readlines()]
StripLines(content) ==
    LET lines == ReadLines(content)
    IN  [i \in 1..Len(lines) |-> Strip(lines[i])]

load_FAQ_data(qcontent, acontent) ==
    [questions |-> StripLines(qcontent), answers |-> StripLines(acontent)]

load_fuzzy_regex_patterns(rcontent) == StripLines(rcontent)

NONE == -1

\* re.search returned None
NoMatch == <<>>

\* re.search raised regex.error: the pattern does not compile
SearchError == <<"error">>

\* match.fuzzy_counts of a successful search: (substitutions, insertions, deletions)
FuzzyCounts == (0..MaxErr) \X (0..MaxErr) \X (0..MaxErr)

\* the characters that stand for themselves in a pattern: digits, letters, space
PlainChars == (48..57) \cup (65..90) \cup (97..122) \cup {32}

Plain(regex) == \A i \in 1..Len(regex) : regex[i] \in PlainChars

\* a plain text followed by the fuzzy constraint {e} (errors allowed on its
\* last character)
FuzzyPlain(regex) ==
    /\ Len(regex) > 3
    /\ Plain(SubSeq(regex, 1, Len(regex) - 3))
    /\ SubSeq(regex, Len(regex) - 2, Len(regex)) = <<123, 101, 125>>

Count(s, c) == Cardinality({i \in 1..Len(s) : s[i] = c})

\* a pattern made of plain characters and parentheses only, whose opening (40)
\* and closing (41) parentheses differ in number.  With no other character in
\* it (no ? for a comment or an inline flag, no escape, no character class)
\* every parenthesis opens or closes a group, so it does not compile
Unbalanced(regex) ==
    /\ \A i \in 1..Len(regex) : regex[i] \in PlainChars \cup {40, 41}
    /\ Count(regex, 40) # Count(regex, 41)

\* what re.search(regex, utterance, flags=re.IGNORECASE) can do.  The empty
\* pattern matches every utterance exactly; a plain pattern matches exactly or
\* not at all; a pattern with a fuzzy constraint matches with some error counts
\* or not at all; a pattern that does not compile makes the call raise.  The
\* syntax of any other pattern is not analysed (it may hold comments, flags,
\* classes, escapes): every outcome is possible
SearchOutcomes(regex) ==
    IF regex = <<>> THEN {<<0, 0, 0>>}
    ELSE IF Plain(regex) THEN {NoMatch, <<0, 0, 0>>}
    ELSE IF FuzzyPlain(regex) THEN {NoMatch} \cup FuzzyCounts
    ELSE IF Unbalanced(regex) THEN {SearchError}
    ELSE {NoMatch, SearchError} \cup FuzzyCounts

\* sum(match.fuzzy_counts)
TotalErrors(counts) == counts[1] + counts[2] + counts[3]

\* faulty variant: a later match with the same error count replaces the best one
BetterMatchOrEqual(total, hasBest, bestErrors) == ~hasBest \/ total <= bestErrors

\* the comparison that lets a later match replace the best one so far
BetterMatch(total, hasBest, bestErrors) == ~hasBest \/ total < bestErrors

\* the scan of understand from pattern idx on (0-based, as enumerate counts);
\* found[idx + 1] is what the search of pattern idx does; hasBest = FALSE stands
\* for best_match_errors = float('inf').  The result: the exception of the
\* search has left the function (raised), or best_match_idx is returned (intent)
RECURSIVE UnderstandFrom(_, _, _, _, _)
UnderstandFrom(found, idx, bestIdx, hasBest, bestErrors) ==
    IF idx >= Len(found)
    THEN [raised |-> FALSE, intent |-> bestIdx]
    ELSE LET match == found[idx + 1]
         IN  IF match = SearchError
             THEN [raised |-> TRUE, intent |-> NONE]
             ELSE IF match # NoMatch
                     /\ BetterMatch(TotalErrors(match), hasBest, bestErrors)
             THEN UnderstandFrom(found, idx + 1, idx, TRUE, TotalErrors(match))
             ELSE UnderstandFrom(found, idx + 1, bestIdx, hasBest, bestErrors)

understand(found) == UnderstandFrom(found, 0, NONE, FALSE, 0)

----------------------------------------------------------------------------
(* faq_bot_plus.py: responses, ResponseManager, analyze_utterance, generate. *)

Labels == {"CHARACTER", "PLACE", "EVENT", "OTHER"}

\* the keys of the responses dictionary built in get_response
TemplateLabels == {"CHARACTER", "PLACE", "EVENT", "OTHER"}

\* entity labels analyze_utterance accepts from doc.ents
OtherEntLabels == {"PERSON", "GPE", "LOC", "ORG"}

NoResponse == [kind |-> "none", label |-> "", variant |-> 0, text |-> "", body |-> <<>>]

Fixed(message) == [NoResponse EXCEPT !.kind = "fixed", !.text = message]

Greeting == Fixed("Hello! How can I assist you?")
Farewell == Fixed("Goodbye! Have a wonderful day!")
Clarification == Fixed("Can you please rephrase your question or ask about something else?")

\* a stored answer, returned as it is
Answer(body) == [NoResponse EXCEPT !.kind = "answer", !.body = body]

\* responses.get(entity_label, responses["OTHER"])[response_index]: variant
\* response_index of the label's template pair, formatted with the entity text
SelectResponse(entity_label, entity_text, response_index) ==
    [NoResponse EXCEPT !.kind = "template",
                       !.label = IF entity_label \in TemplateLabels
                                 THEN entity_label ELSE "OTHER",
                       !.variant = response_index,
                       !.text = entity_text]

\* self.last_response.get(entity_label, 0)
ResponseIndex(lr, entity_label) ==
    IF entity_label \in DOMAIN lr THEN lr[entity_label] ELSE 0

\* faulty variant: the index is stored back as it was read
NextIndexStuck(response_index) == response_index

\* (response_index + 1) % 2
NextIndex(response_index) == (response_index + 1) % 2

\* faulty variant: one index shared by all labels
StoreIndexShared(lr, entity_label, value) ==
    [l \in DOMAIN lr \cup {entity_label} |-> value]

\* self.last_response[entity_label] = value
StoreIndex(lr, entity_label, value) ==
    [l \in DOMAIN lr \cup {entity_label} |->
        IF l = entity_label THEN value ELSE lr[l]]

\* what nlp(utterance) and matcher(doc) can produce: the matcher's matches
\* (label, span text) in the order returned, and doc.ents (label_, text)
GazHits == {<<"CHARACTER", "Adam">>, <<"CHARACTER", "Noah">>,
            <<"PLACE", "Eden">>, <<"EVENT", "flood">>}
EntSpans == {<<"PERSON", "Jordan">>, <<"GPE", "Jordan">>, <<"LOC", "Jordan">>,
             <<"ORG", "Jordan">>, <<"DATE", "today">>}

SeqsUpTo(S, n) == UNION {[1..k -> S] : k \in 0..n}

Docs == [matches : SeqsUpTo(GazHits, MaxSpans), ents : SeqsUpTo(EntSpans, MaxSpans)]

\* the entities of doc.ents the second loop of analyze_utterance answers for
Qualifying(ents) == {j \in 1..Len(ents) : ents[j][1] \in OtherEntLabels}

\* analyze_utterance up to its call of get_response: the (label, text) it passes,
\* or hit = FALSE when it falls through to the default response
Analysis(doc) ==
    IF doc.matches # <<>>
    THEN [hit |-> TRUE, label |-> doc.matches[1][1], text |-> doc.matches[1][2]]
    ELSE IF Qualifying(doc.ents) # {}
         THEN LET j == CHOOSE k \in Qualifying(doc.ents) :
                           \A m \in Qualifying(doc.ents) : k <= m
              IN  [hit |-> TRUE, label |-> "OTHER", text |-> doc.ents[j][2]]
         ELSE [hit |-> FALSE, label |-> "", text |-> ""]

\* generate, for an intent that is not NONE: answers[intent] exists
AnswerExists(intent, answerList) == intent < Len(answerList)

\* answers[intent] (Python indexes from 0)
StoredAnswer(intent, answerList) == Answer(answerList[intent + 1])

\* faulty variant: the sanitized utterance is analysed
AnalysedSanitized(utterance) == sanitize_text(utterance)

\* the utterance generate hands to analyze_utterance
AnalysedText(utterance) == utterance

----------------------------------------------------------------------------
(* The drivers: main (console) and MyClient.on_message (Discord). *)

\* "hello"
Hello == <<104, 101, 108, 108, 111>>
\* "goodbye"
Goodbye == <<103, 111, 111, 100, 98, 121, 101>>

\* faulty variant: no greeting branch
BranchNoGreeting(sanitized) ==
    IF sanitized = Goodbye THEN "goodbye" ELSE "other"

\* the if / elif / else on the sanitized utterance
Branch(sanitized) ==
    IF sanitized = Hello THEN "hello"
    ELSE IF sanitized = Goodbye THEN "goodbye"
    ELSE "other"

\* faulty variant: the session is ended on another keyword
EndsSessionOnQuit(branch) == branch = "quit"

\* the branch after whose response the driver ends the session (break, close)
EndsSession(branch) == branch = "goodbye"

\* utterances a user can send: "Hello" followed by a grave accent and a form
\* feed, " Good-Bye.", "good" and "bye" with a no-break space and a space in
\* between, "Who is Adam?"
Utterances ==
    { <<72, 101, 108, 108, 111, 96, 12>>,
      <<32, 71, 111, 111, 100, 45, 66, 121, 101, 46>>,
      <<103, 111, 111, 100, 160, 32, 98, 121, 101>>,
      <<87, 104, 111, 32, 105, 115, 32, 65, 100, 97, 109, 63>> }

\* positions inside a synchronous stretch of a handler; the other positions
\* ("send", "close") are await points
RunningPCs == {"understand", "generate", "analyze", "gr_read", "gr_write", "respond"}

\* the locals of a handler that has just been given its utterance
Fresh == [pc |-> "respond", utt |-> <<>>, branch |-> "other", called |-> {},
          intent |-> NONE, analysed |-> <<>>, label |-> "", text |-> "", idx |-> 0,
          response |-> NoResponse]

\* a handler suspended at an await: of its locals only the response and the
\* branch taken are read again
Suspended(h, at) == [Fresh EXCEPT !.pc = at, !.branch = h.branch, !.response = h.response]

\* the handlers in progress without handler i, which has returned
Without(hs, i) == SubSeq(hs, 1, i - 1) \o SubSeq(hs, i + 1, Len(hs))

\* faulty variant: handlers preempt each other anywhere
CanRunAnywhere(i) == i \in 1..(Len(handlers) + 1)

\* the event loop runs one handler at a time and switches only at an await:
\* handler i may take a step when no other handler is inside a synchronous stretch
CanRun(i) ==
    \A j \in 1..Len(handlers) : j # i => handlers[j].pc \notin RunningPCs

\* the knowledge-base files the drivers are started on (questions a, b):
\* empty files; aligned files with the patterns p and q{e}; an answers file one
\* line short, with \r\n line ends; aligned files whose first pattern is (
DriverSources ==
    { [q |-> <<>>, a |-> <<>>, r |-> <<>>],
      [q |-> <<97, 10, 98, 10>>, a |-> <<120, 10, 121, 10>>,
       r |-> <<112, 10, 113, 123, 101, 125, 10>>],
      [q |-> <<97, 13, 10, 98, 13, 10>>, a |-> <<120, 13, 10>>,
       r |-> <<112, 13, 10, 113, 13, 10>>],
      [q |-> <<97, 10, 98, 10>>, a |-> <<120, 10, 121, 10>>,
       r |-> <<40, 10, 113, 10>>] }

\* every file content of at most MaxFileLen characters out of a, b, space, \n, \r
FileChars == {97, 98, 32, 10, 13}
FileContents == SeqsUpTo(FileChars, MaxFileLen)
AllSources == [q : FileContents, a : FileContents, r : FileContents]

InitWith(sources, drivers, probes) ==
    /\ \E s \in sources : qfile = s.q /\ afile = s.a /\ rfile = s.r
    /\ boot = "faq"
    /\ questions = <<>> /\ answers = <<>> /\ regex_list = <<>>
    /\ driver \in drivers
    /\ running = TRUE
    /\ crashed = {}
    /\ last_response = <<>>
    /\ hits = [l \in Labels |-> 0]
    /\ handlers = <<>>
    /\ received = 0
    /\ delivered = 0
    /\ farewellSent = FALSE
    /\ probe \in probes

\* main line 199, MyClient.__init__ line 31
LoadFAQ ==
    /\ boot = "faq"
    /\ LET kb == load_FAQ_data(qfile, afile)
       IN  questions' = kb.questions /\ answers' = kb.answers
    /\ boot' = "patterns"
    /\ UNCHANGED <<qfile, afile, rfile, regex_list, driver, running, crashed,
                   last_response, hits, handlers, received, delivered, farewellSent,
                   probe>>

\* main line 200, MyClient.__init__ line 32
LoadPatterns ==
    /\ boot = "patterns"
    /\ regex_list' = load_fuzzy_regex_patterns(rfile)
    /\ boot' = "ready"
    /\ UNCHANGED <<qfile, afile, rfile, questions, answers, driver, running, crashed,
                   last_response, hits, handlers, received, delivered, farewellSent,
                   probe>>

\* a message arrives and its handler runs up to the branch on the sanitized
\* text (a message written by a bot is dropped at once); the console reads the
\* next line only when the last turn is over, and its lines have no author
Dispatch(utterance, fromBot) ==
    /\ boot = "ready"
    /\ running
    /\ received < MaxMsgs
    /\ Len(handlers) < MaxPending
    /\ CanRun(Len(handlers) + 1)
    /\ driver = "console" => ~fromBot /\ handlers = <<>>
    /\ received' = received + 1
    /\ LET branch == Branch(sanitize_text(utterance))
           h == [Fresh EXCEPT !.utt = utterance, !.branch = branch]
       IN  handlers' =
               IF fromBot THEN handlers
               ELSE Append(handlers,
                       IF branch = "hello"
                       THEN [h EXCEPT !.pc = "respond", !.response = Greeting]
                       ELSE IF branch = "goodbye"
                       THEN [h EXCEPT !.pc = "respond", !.response = Farewell]
                       ELSE [h EXCEPT !.pc = "understand"])
    /\ UNCHANGED <<qfile, afile, rfile, boot, questions, answers, regex_list, driver,
                   running, crashed, last_response, hits, delivered, farewellSent,
                   probe>>

\* an exception leaves the handler: the console process ends with it, the
\* Discord client logs it and the handler ends with nothing sent
Escapes(i, exception) ==
    /\ handlers' = Without(handlers, i)
    /\ crashed' = crashed \cup {exception}
    /\ running' = IF driver = "console" THEN FALSE ELSE running

\* intent = understand(utterance, regex_list); there is no try around the
\* searches, so a pattern that does not compile ends the turn in regex.error
Understand(i) ==
    /\ handlers[i].pc = "understand"
    /\ CanRun(i)
    /\ \E found \in [1..Len(regex_list) -> {NoMatch, SearchError} \cup FuzzyCounts] :
          /\ \A n \in 1..Len(regex_list) : found[n] \in SearchOutcomes(regex_list[n])
          /\ LET result == understand(found)
             IN  IF result.raised
                 THEN Escapes(i, "regex.error")
                 ELSE /\ handlers' = [handlers EXCEPT ![i] =
                            [@ EXCEPT !.pc = "generate",
                                      !.intent = result.intent,
                                      !.called = @ \cup {"understand"}]]
                      /\ UNCHANGED <<running, crashed>>
    /\ UNCHANGED <<qfile, afile, rfile, boot, questions, answers, regex_list, driver,
                   last_response, hits, received, delivered, farewellSent, probe>>

\* generate: answers[intent], an IndexError when there is no such answer, or the
\* call of analyze_utterance; an IndexError ends the console process and, in the
\* Discord client, ends the handler with nothing sent
Generate(i) ==
    /\ handlers[i].pc = "generate"
    /\ CanRun(i)
    /\ LET h == [handlers[i] EXCEPT !.called = @ \cup {"generate"}]
       IN  IF h.intent = NONE
           THEN /\ handlers' = [handlers EXCEPT ![i] =
                       [h EXCEPT !.pc = "analyze", !.analysed = AnalysedText(h.utt)]]
                /\ UNCHANGED <<running, crashed>>
           ELSE IF AnswerExists(h.intent, answers)
           THEN /\ handlers' = [handlers EXCEPT ![i] =
                       [h EXCEPT !.pc = "respond",
                                 !.response = StoredAnswer(h.intent, answers)]]
                /\ UNCHANGED <<running, crashed>>
           ELSE Escapes(i, "IndexError")
    /\ UNCHANGED <<qfile, afile, rfile, boot, questions, answers, regex_list, driver,
                   last_response, hits, received, delivered, farewellSent, probe>>

\* analyze_utterance on the text it was handed: doc = nlp(utterance), then up to
\* the call of get_response, or to the default response
Analyze(i) ==
    /\ handlers[i].pc = "analyze"
    /\ CanRun(i)
    /\ \E doc \in Docs :
          LET h == [handlers[i] EXCEPT !.called = @ \cup {"analyze_utterance"}]
              a == Analysis(doc)
          IN  handlers' = [handlers EXCEPT ![i] =
                  IF a.hit
                  THEN [h EXCEPT !.pc = "gr_read", !.label = a.label, !.text = a.text]
                  ELSE [h EXCEPT !.pc = "respond", !.response = Clarification]]
    /\ UNCHANGED <<qfile, afile, rfile, boot, questions, answers, regex_list, driver,
                   running, crashed, last_response, hits, received, delivered,
                   farewellSent, probe>>

\* get_response lines 58 to 60: read the index, pick the response
GetResponseRead(i) ==
    /\ handlers[i].pc = "gr_read"
    /\ CanRun(i)
    /\ LET h == handlers[i]
           index == ResponseIndex(last_response, h.label)
       IN  handlers' = [handlers EXCEPT ![i] =
               [h EXCEPT !.pc = "gr_write",
                         !.idx = index,
                         !.response = SelectResponse(h.label, h.text, index)]]
    /\ hits' = [hits EXCEPT ![handlers[i].label] = @ + 1]
    /\ UNCHANGED <<qfile, afile, rfile, boot, questions, answers, regex_list, driver,
                   running, crashed, last_response, received, delivered, farewellSent,
                   probe>>

\* get_response lines 62 and 63: store the next index, return to the driver
GetResponseWrite(i) ==
    /\ handlers[i].pc = "gr_write"
    /\ CanRun(i)
    /\ last_response' = StoreIndex(last_response, handlers[i].label,
                                   NextIndex(handlers[i].idx))
    /\ handlers' = [handlers EXCEPT ![i] = [@ EXCEPT !.pc = "respond"]]
    /\ UNCHANGED <<qfile, afile, rfile, boot, questions, answers, regex_list, driver,
                   running, crashed, hits, received, delivered, farewellSent, probe>>

\* the driver has its response.  Console: print it, and on goodbye leave the
\* loop.  Discord: start channel.send(response) and wait for it
Respond(i) ==
    /\ handlers[i].pc = "respond"
    /\ CanRun(i)
    /\ IF driver = "console"
       THEN /\ delivered' = delivered + 1
            /\ handlers' = Without(handlers, i)
            /\ farewellSent' = (farewellSent \/ handlers[i].branch = "goodbye")
            /\ running' = (running /\ ~EndsSession(handlers[i].branch))
       ELSE /\ handlers' = [handlers EXCEPT ![i] = Suspended(@, "send")]
            /\ UNCHANGED <<delivered, farewellSent, running>>
    /\ UNCHANGED <<qfile, afile, rfile, boot, questions, answers, regex_list, driver,
                   crashed, last_response, hits, received, probe>>

\* Discord: the awaited channel.send completes; after the farewell the handler
\* goes on to await self.close(), otherwise it returns
SendDone(i) ==
    /\ handlers[i].pc = "send"
    /\ running
    /\ CanRun(i)
    /\ delivered' = delivered + 1
    /\ farewellSent' = (farewellSent \/ handlers[i].branch = "goodbye")
    /\ handlers' = IF EndsSession(handlers[i].branch)
                   THEN [handlers EXCEPT ![i] = Suspended(@, "close")]
                   ELSE Without(handlers, i)
    /\ UNCHANGED <<qfile, afile, rfile, boot, questions, answers, regex_list, driver,
                   running, crashed, last_response, hits, received, probe>>

\* Discord: the awaited self.close() completes: the client is closed, and the
\* handlers still waiting are cancelled when the event loop is torn down
CloseDone(i) ==
    /\ handlers[i].pc = "close"
    /\ running
    /\ CanRun(i)
    /\ running' = FALSE
    /\ handlers' = <<>>
    /\ UNCHANGED <<qfile, afile, rfile, boot, questions, answers, regex_list, driver,
                   crashed, last_response, hits, received, delivered, farewellSent,
                   probe>>

\* console: input() finds the end of the input and raises EOFError, which
\* nothing in main catches
EndOfInput ==
    /\ boot = "ready"
    /\ running
    /\ driver = "console"
    /\ handlers = <<>>
    /\ crashed' = crashed \cup {"EOFError"}
    /\ running' = FALSE
    /\ UNCHANGED <<qfile, afile, rfile, boot, questions, answers, regex_list, driver,
                   last_response, hits, handlers, received, delivered, farewellSent,
                   probe>>

Next ==
    \/ LoadFAQ
    \/ LoadPatterns
    \/ \E u \in Utterances, b \in BOOLEAN : Dispatch(u, b)
    \/ EndOfInput
    \/ \E i \in 1..Len(handlers) : Understand(i)
    \/ \E i \in 1..Len(handlers) : Generate(i)
    \/ \E i \in 1..Len(handlers) : Analyze(i)
    \/ \E i \in 1..Len(handlers) : GetResponseRead(i)
    \/ \E i \in 1..Len(handlers) : GetResponseWrite(i)
    \/ \E i \in 1..Len(handlers) : Respond(i)
    \/ \E i \in 1..Len(handlers) : SendDone(i)
    \/ \E i \in 1..Len(handlers) : CloseDone(i)

Init == InitWith(DriverSources, {"console", "discord"}, {<<>>})

Spec == Init /\ [][Next]_vars

----------------------------------------------------------------------------
(* The loaders on every content of the three files. *)

\* both drivers start with the same two calls
InitLoad == InitWith(AllSources, {"console"}, {<<>>})

NextLoad == LoadFAQ \/ LoadPatterns

SpecLoad == InitLoad /\ [][NextLoad]_vars

----------------------------------------------------------------------------
(* understand on every list of search results. *)

\* the search results of the patterns of a list, in the order of the list
FoundLists == SeqsUpTo({NoMatch, SearchError} \cup FuzzyCounts, MaxPatterns)

InitUnderstand ==
    InitWith({[q |-> <<>>, a |-> <<>>, r |-> <<>>]}, {"console"},
             [found : FoundLists, raised : {FALSE}, intent : {NONE}, done : {FALSE}])

\* best_match_idx = understand(utterance, regex_list)
ApplyUnderstand ==
    /\ ~probe.done
    /\ probe' = [probe EXCEPT !.raised = understand(probe.found).raised,
                              !.intent = understand(probe.found).intent,
                              !.done = TRUE]
    /\ UNCHANGED <<qfile, afile, rfile, boot, questions, answers, regex_list, driver,
                   running, crashed, last_response, hits, handlers, received,
                   delivered, farewellSent>>

SpecUnderstand == InitUnderstand /\ [][ApplyUnderstand]_vars

----------------------------------------------------------------------------
(* Properties. *)

\* the patterns of a list of search results that matched
Matched(found) == {n \in 1..Len(found) : found[n] \notin {NoMatch, SearchError}}

\* the entries of a list of search results that are no pattern: they do not compile
Malformed(found) == {n \in 1..Len(found) : found[n] = SearchError}

\* C1: on a list of patterns understand returns NONE exactly when no pattern
\* matches; otherwise it returns the index of a matching pattern whose error
\* count is the least among the matching patterns, and the lowest such index.
\* It returns nothing, and raises, exactly when an entry of the list does not
\* compile.
C1_BestMatch ==
    probe.done =>
        LET found == probe.found
            r == probe.intent
        IN  /\ probe.raised <=> (Malformed(found) # {})
            /\ ~probe.raised =>
                  /\ (r = NONE) <=> (Matched(found) = {})
                  /\ Matched(found) # {} =>
                        /\ r + 1 \in Matched(found)
                        /\ \A n \in Matched(found) :
                              /\ TotalErrors(found[r + 1]) <= TotalErrors(found[n])
                              /\ TotalErrors(found[n]) = TotalErrors(found[r + 1])
                                     => r + 1 <= n

\* two patterns match with the same error count, made of different kinds of
\* error, and the first one is returned
C1_Witness ==
    /\ probe.done
    /\ ~probe.raised
    /\ Len(probe.found) = 2
    /\ probe.found[1] = <<0, 1, 0>>
    /\ probe.found[2] = <<1, 0, 0>>
    /\ probe.intent = 0

\* the handlers that hold a template response picked by get_response
HoldsTemplate(h) ==
    h.pc \in {"gr_write", "respond"} /\ h.response.kind = "template"

\* C2: the k-th fallback hit of a category returns variant (k - 1) mod 2 of that
\* category's templates, whatever the matched text and the turns in between.
C2_Alternation ==
    \A i \in 1..Len(handlers) :
        HoldsTemplate(handlers[i]) =>
            /\ handlers[i].response.label = handlers[i].label
            /\ hits[handlers[i].label] >= 1
            /\ handlers[i].response.variant = (hits[handlers[i].label] - 1) % 2

\* the third hit of CHARACTER, on another text than Adam, is back at variant 0
C2_Witness ==
    \E i \in 1..Len(handlers) :
        /\ handlers[i].pc = "respond"
        /\ handlers[i].response = SelectResponse("CHARACTER", "Noah", 0)
        /\ hits["CHARACTER"] = 3
        /\ delivered = 2

\* the entity responses the analyser can return for the (label, text) it found
IsAnalysisResult(h) ==
    \/ h.response = Clarification
    \/ /\ h.response.kind = "template"
       /\ h.response.label = h.label
       /\ h.response.text = h.text
       /\ h.response.variant \in {0, 1}

\* C3: generate returns answers[index] as it is when the index is not NONE
\* (and raises IndexError only when answers has no such entry), and otherwise
\* the result of the fallback analyser applied to the utterance as the user
\* wrote it.
C3_Generate ==
    /\ \A i \in 1..Len(handlers) :
          LET h == handlers[i]
          IN  (h.pc = "respond" /\ "generate" \in h.called) =>
                  IF h.intent # NONE
                  THEN /\ h.intent \in 0..(Len(answers) - 1)
                       /\ h.response = Answer(answers[h.intent + 1])
                       /\ "analyze_utterance" \notin h.called
                  ELSE /\ "analyze_utterance" \in h.called
                       /\ h.analysed = h.utt
                       /\ IsAnalysisResult(h)
    /\ "IndexError" \in crashed => Len(answers) < Len(regex_list)

\* no pattern matched an utterance that sanitizing would change, and the
\* analyser answered for the entity it found in the text as written
C3_Witness ==
    \E i \in 1..Len(handlers) :
        /\ handlers[i].pc = "respond"
        /\ handlers[i].intent = NONE
        /\ "generate" \in handlers[i].called
        /\ handlers[i].analysed # sanitize_text(handlers[i].utt)
        /\ handlers[i].response = SelectResponse("CHARACTER", "Adam", 0)
        /\ Len(regex_list) = 2

\* C4: in both drivers an utterance whose sanitized form is "hello" is answered
\* with the fixed greeting, and neither understand nor generate is called for it.
C4_Greeting ==
    \A i \in 1..Len(handlers) :
        LET h == handlers[i]
        IN  (sanitize_text(h.utt) = Hello \/ h.branch = "hello") =>
                /\ h.branch = "hello"
                /\ h.called = {}
                /\ h.response = Greeting
                /\ h.pc \in {"respond", "send"}

\* "Hello" with a grave accent and a form feed after it is about to be
\* answered by the Discord client, which holds patterns
C4_Witness ==
    \E i \in 1..Len(handlers) :
        /\ driver = "discord"
        /\ handlers[i].pc = "respond"
        /\ handlers[i].utt # Hello
        /\ sanitize_text(handlers[i].utt) = Hello
        /\ handlers[i].response = Greeting
        /\ Len(regex_list) = 2

\* the handlers of the utterances whose sanitized form is "goodbye"
Farewells(hs) == {i \in 1..Len(hs) : hs[i].branch = "goodbye"}

\* C5: an utterance whose sanitized form is "goodbye" is answered with the fixed
\* farewell and the session then ends: a goodbye handler holds the farewell and
\* never returns with the session still alive; the farewell is delivered before
\* the session ends (the console ends in the same step, the Discord client is
\* closed later), and nothing is received or answered after it has ended.
C5_Farewell ==
    /\ [](\A i \in 1..Len(handlers) :
             (sanitize_text(handlers[i].utt) = Goodbye \/ handlers[i].branch = "goodbye") =>
                 /\ handlers[i].branch = "goodbye"
                 /\ handlers[i].called = {}
                 /\ handlers[i].response = Farewell)
    /\ [][/\ (running /\ farewellSent' /\ ~farewellSent) =>
                 (running' <=> driver = "discord")
          /\ (Farewells(handlers) # {} /\ Farewells(handlers') = {}) =>
                 (~running' /\ farewellSent')
          /\ ~running => (delivered' = delivered /\ received' = received)]_vars

\* the Discord client has delivered the farewell and closed, with another
\* response delivered before
C5_Witness ==
    /\ driver = "discord"
    /\ ~running
    /\ crashed = {}
    /\ farewellSent
    /\ delivered = 2

\* C6: the loaders produce one trimmed entry per non-empty line, in order, and
\* ignore blank and whitespace-only lines.
NonBlankEntries(content) == SelectSeq(StripLines(content), LAMBDA e : e # <<>>)

C6_BlankLinesIgnored ==
    /\ boot # "faq" =>
          /\ questions = NonBlankEntries(qfile)
          /\ answers = NonBlankEntries(afile)
    /\ boot = "ready" => regex_list = NonBlankEntries(rfile)

\* C7: after loading, questions, answers and patterns have the same length, so
\* every index understand can return is an index of answers.
C7_EqualLengths ==
    boot = "ready" =>
        /\ Len(questions) = Len(answers)
        /\ Len(answers) = Len(regex_list)

\* C8: every turn ends with a response delivered; none ends in an exception.
C8_NoException == crashed \cap {"IndexError", "regex.error"} = {}

\* C9: in the Discord client no other handler runs between a handler's read of
\* a category's index and its write of the next one, so every read sees the
\* index left by the previous hit of that category.
C9_AtomicAlternation ==
    /\ \A i \in 1..Len(handlers) :
          handlers[i].pc = "gr_write" =>
              /\ ResponseIndex(last_response, handlers[i].label) = handlers[i].idx
              /\ handlers[i].idx = (hits[handlers[i].label] - 1) % 2
              /\ \A j \in 1..Len(handlers) :
                    j # i => handlers[j].pc \notin RunningPCs
    /\ \A c \in Labels :
          (\A i \in 1..Len(handlers) :
               ~(handlers[i].pc = "gr_write" /\ handlers[i].label = c)) =>
              ResponseIndex(last_response, c) = hits[c] % 2

\* while a CHARACTER response waits to be sent, the handler of a later message
\* has read the index for CHARACTER and holds the other variant
C9_Witness ==
    \E i, j \in 1..Len(handlers) :
        /\ driver = "discord"
        /\ handlers[i].pc = "send"
        /\ handlers[i].response.kind = "template"
        /\ handlers[i].response.label = "CHARACTER"
        /\ handlers[i].response.variant = 0
        /\ handlers[j].pc = "gr_write"
        /\ handlers[j].label = "CHARACTER"
        /\ handlers[j].idx = 1

\* C10: the alternation state changes only in a turn that returns an entity
\* template response, and then only at the label that was hit; every entry is 0
\* or 1.
C10_Frame ==
    /\ [](/\ DOMAIN last_response \subseteq Labels
          /\ \A l \in DOMAIN last_response : last_response[l] \in {0, 1})
    /\ [][last_response' # last_response =>
             \E i \in 1..Len(handlers) :
                 /\ handlers[i].pc = "gr_write"
                 /\ Len(handlers') = Len(handlers)
                 /\ handlers'[i].pc = "respond"
                 /\ handlers'[i].response.kind = "template"
                 /\ handlers'[i].response.label = handlers[i].label
                 /\ DOMAIN last_response' = DOMAIN last_response \cup {handlers[i].label}
                 /\ \A l \in DOMAIN last_response' \ {handlers[i].label} :
                       last_response'[l] = last_response[l]]_vars

\* CHARACTER was hit twice and OTHER once: each entry moved on its own
C10_Witness ==
    /\ DOMAIN last_response = {"CHARACTER", "OTHER"}
    /\ last_response["CHARACTER"] = 0
    /\ last_response["OTHER"] = 1
    /\ hits["CHARACTER"] = 2
    /\ hits["OTHER"] = 1

====
